---- MODULE Spec2Model ----
(***************************************************************************)
(* Packing optimisation engine of PackAssist                               *)
(* (src/src/packassist/optimizer.py): optimize_packing,                    *)
(* calculate_theoretical_max, calculate_grid_packing and                   *)
(* _generate_grid_layout, with the external placement solver               *)
(* (py3dbp_enhanced Packer.pack) as a nondeterministic collaborator.       *)
(*                                                                         *)
(* Numbers.  Lengths are integers in units of 50 mm (1000 x 800 x 600 mm   *)
(* is <<20, 16, 12>>): every quantity the code derives from lengths is a   *)
(* ratio of lengths or of volumes, or a volume compared with a volume, so  *)
(* the unit does not change a count, and it keeps volumes inside TLC's     *)
(* 32-bit integers.  volume_factor is in thousandths (0.785 is 785),       *)
(* a packing efficiency in hundredths (0.85 is 85), the reported           *)
(* efficiency in hundredths of a percent (round(x, 2)).                    *)
(* The code computes in binary floating point.  For the shape pairs drawn  *)
(* below (a rectangular or hexagonal container) floor(count * efficiency)  *)
(* in doubles equals the exact value for every count up to 5000.           *)
(***************************************************************************)
EXTENDS Integers, Sequences, FiniteSets, TLC

VARIABLES
    box_dims,      \* request: container [length, width, height, shape_type, volume_factor]
    obj_dims,      \* request: item, same fields
    max_attempts_arg, \* request: [given, value], given = FALSE is max_attempts=None
    pc,            \* position inside optimize_packing
    theoretical,   \* optimizer.py:44
    grid_result,   \* optimizer.py:46/66  [max_objects, best_orientation]
    max_attempts,  \* optimizer.py:61-62, the item count given to the solver
    obj_orientations, \* optimizer.py:88-102
    box_i,         \* index of the outer loop, optimizer.py:108
    obj_i,         \* index of the inner loop, optimizer.py:109
    best_count,    \* optimizer.py:79
    best_result,   \* optimizer.py:78, None or the record of optimizer.py:152-159
    box_items,     \* len(box.items) of the bin the result is read from
    calls,         \* history: every solver invocation of this request
    result,        \* the returned dict; of bins[0] the number of items, the bin
                   \* they are read from (a solver invocation or the grid bin)
                   \* and, for the grid bin, the items themselves
    search_max,    \* history: the most items any trial of this request placed
    placed,        \* history: the outcome of every pack() of this request, in order
    run,           \* number of the request on these inputs (1, 2, ...), 0: no repeat
    agree,         \* history: so far every pack() ended as in the first request
    first,         \* history: result (its counts and error, without the
                   \* list of placements) and outcomes of the first request
    file,          \* the geometry source handed to a dimension extractor
    extracted,     \* the extractor's return: [returned, value], value None or <<dict>>
    is_processing, \* app.py:33, the flag shared by the GUI thread and the workers
    metadata,      \* app.py:34, of the entries the numbers of valid boxes and objects
    threads        \* every thread started at app.py:892-894, in order: its position
                   \* in _process_files_thread, its loop indices, and as history
                   \* whether it broke out of a loop, how it ended, and whether
                   \* stop_processing was called while it ran

vars == <<box_dims, obj_dims, max_attempts_arg, pc, theoretical, grid_result,
          max_attempts, obj_orientations, box_i, obj_i, best_count, best_result,
          box_items, calls, search_max, placed, result, run, agree, first,
          file, extracted, is_processing, metadata, threads>>

(***************************************************************************)
(* Bounds of the model.                                                    *)
(***************************************************************************)
\* at most MaxThreads batches are started
MaxThreads == 2
\* the list holds up to MaxBoxes valid boxes
MaxBoxes == 2
\* the list holds up to MaxObjects valid objects
MaxObjects == 2
\* container axes of the swept requests range over 1..MaxBoxAxis
MaxBoxAxis == 3
\* item axes of the swept requests range over 1..MaxObjAxis
MaxObjAxis == 2
\* the solver may place any count in 0..SolverSmall (and the landmark counts)
SolverSmall == 2
\* requests made in a row on the same inputs
MaxRuns == 2
\* the largest grid layout whose placements are compared pair by pair
MaxPairwise == 200

None == <<>>

(***************************************************************************)
(* Pure functions.                                                         *)
(***************************************************************************)

\* stp_loader.py get_shape_packing_efficiency, in hundredths
get_shape_packing_efficiency(shape_type) ==
    CASE shape_type = "rectangular"    -> 100
      [] shape_type = "hexagonal"      -> 90
      [] shape_type = "octagonal"      -> 85
      [] shape_type = "pentagonal"     -> 80
      [] shape_type = "triangular"     -> 75
      [] shape_type = "cylindrical"    -> 70
      [] shape_type = "spherical"      -> 64
      [] shape_type = "elliptical"     -> 70
      [] shape_type = "conical"        -> 60
      [] shape_type = "complex_curved" -> 65
      [] shape_type = "circular"       -> 70
      [] shape_type = "unknown"        -> 75
      [] OTHER                         -> 75

Volume(d) == d.width * d.height * d.length

\* optimizer.py:310: math.floor(real_box_volume / real_obj_volume), volume
\* factors in thousandths
TheoreticalFloor(box, obj) ==
    LET real_box_volume == Volume(box) * box.volume_factor
        real_obj_volume == Volume(obj) * obj.volume_factor
    IN  IF real_obj_volume > 0 THEN real_box_volume \div real_obj_volume ELSE 0

\* optimizer.py:313-319: the report of the gain over the bounding-box maximum
\* divides by that maximum, and raises ZeroDivisionError when it is 0
TheoreticalReportRaises(box, obj) ==
    LET bounding_max == IF Volume(obj) > 0 THEN Volume(box) \div Volume(obj) ELSE 0
        improvement == TheoreticalFloor(box, obj) - bounding_max
    IN  /\ obj.volume_factor # 1000 \/ box.volume_factor # 1000
        /\ improvement > 0
        /\ bounding_max = 0

\* optimizer.py:287-324; an exception is caught at 322-324 and 0 returned
calculate_theoretical_max(box, obj) ==
    IF TheoreticalReportRaises(box, obj) THEN 0 ELSE TheoreticalFloor(box, obj)

\* mutant: only the three orientations of optimizer.py:88-92 are enumerated
GridOrientations_Three(obj) ==
    << <<obj.length, obj.width, obj.height>>,
       <<obj.width, obj.length, obj.height>>,
       <<obj.height, obj.width, obj.length>> >>

\* optimizer.py:357-364, the fixed enumeration order of the item orientations
GridOrientations(obj) ==
    << <<obj.length, obj.width, obj.height>>,
       <<obj.length, obj.height, obj.width>>,
       <<obj.width, obj.length, obj.height>>,
       <<obj.width, obj.height, obj.length>>,
       <<obj.height, obj.length, obj.width>>,
       <<obj.height, obj.width, obj.length>> >>

\* optimizer.py:373-375: math.floor(box axis / item axis) if item axis > 0 else 0
Fit(box_axis, obj_axis) == IF obj_axis > 0 THEN box_axis \div obj_axis ELSE 0

\* optimizer.py:378
GridCount(box, o) ==
    Fit(box.length, o[1]) * Fit(box.width, o[2]) * Fit(box.height, o[3])

\* optimizer.py:349, twice the combined efficiency in hundredths
CombinedEfficiency2(box, obj) ==
    get_shape_packing_efficiency(obj.shape_type)
      + get_shape_packing_efficiency(box.shape_type)

\* mutant: the two efficiencies are added and not halved
AdjustedCount_Sum(box, obj, o) ==
    (GridCount(box, o) * CombinedEfficiency2(box, obj)) \div 100

\* optimizer.py:381: math.floor(grid_count * combined_efficiency)
AdjustedCount(box, obj, o) ==
    (GridCount(box, o) * CombinedEfficiency2(box, obj)) \div 200

\* mutant: an orientation that ties with the best one replaces it
GridImproves_Ties(adjusted_count, max_count) == adjusted_count >= max_count

\* optimizer.py:386: the test that replaces the best orientation
GridImproves(adjusted_count, max_count) == adjusted_count > max_count

\* optimizer.py:366-389: the loop over the orientations from index i on
RECURSIVE GridScan(_, _, _, _, _)
GridScan(box, obj, i, max_count, best_orientation) ==
    IF i > Len(GridOrientations(obj))
    THEN [max_objects |-> max_count, best_orientation |-> best_orientation]
    ELSE LET o == GridOrientations(obj)[i]
             adjusted_count == AdjustedCount(box, obj, o)
         IN  IF GridImproves(adjusted_count, max_count)
             THEN GridScan(box, obj, i + 1, adjusted_count, o)
             ELSE GridScan(box, obj, i + 1, max_count, best_orientation)

\* optimizer.py:326-428
calculate_grid_packing(box, obj) == GridScan(box, obj, 1, 0, None)


(***************************************************************************)
(* The external placement solver (py3dbp_enhanced: Packer, Bin, Item).     *)
(* Its code is not part of the repository: pack() is a black box that      *)
(* either raises or leaves in the bin a subset of the items it was given,  *)
(* placed disjointly inside the bin (items may be rotated).                *)
(***************************************************************************)

Permutations3(o) ==
    { <<o[1], o[2], o[3]>>, <<o[1], o[3], o[2]>>, <<o[2], o[1], o[3]>>,
      <<o[2], o[3], o[1]>>, <<o[3], o[1], o[2]>>, <<o[3], o[2], o[1]>> }

Volume3(o) == o[1] * o[2] * o[3]

Min(a, b) == IF a < b THEN a ELSE b

\* the most items of size item that disjoint placement inside bin allows by
\* volume; none when the item fits the bin in no rotation
SolverCap(bin, item) ==
    IF \E p \in Permutations3(item) : \A a \in 1..3 : p[a] > 0 /\ p[a] <= bin[a]
    THEN Volume3(bin) \div Volume3(item)
    ELSE 0

\* optimizer.py:163: best_count >= max_attempts * 0.8
GoodEnough(count, n) == 10 * count >= 8 * n

\* the least count that is good enough for n items
Threshold(n) == (8 * n + 9) \div 10

\* the counts pack() may leave in the bin: every small one, and the counts
\* around the grid estimate, the 80% threshold, the budget and the capacity
SolverCounts(bin, item, n, grid) ==
    LET cap == Min(n, SolverCap(bin, item))
    IN  { k \in 0..cap :
            \/ k <= SolverSmall
            \/ k \in {grid - 1, grid, grid + 1, Threshold(n) - 1, Threshold(n),
                      n - 1, n, cap} }

Raised == -1

\* history of the solver's outcomes: the first of the repeated requests
\* records them, a later one compares its own with them, call by call, and
\* the record is dropped once they differ
Observe(outcome) ==
    /\ placed' = IF run = 1 THEN Append(placed, outcome) ELSE placed
    /\ agree' = (agree /\ (\/ run < 2
                           \/ Len(calls) + 1 > Len(first.placed)
                           \/ first.placed[Len(calls) + 1] = outcome))
    /\ first' = IF agree' THEN first ELSE [first EXCEPT !.placed = <<>>]

(***************************************************************************)
(* optimize_packing, one request.                                          *)
(***************************************************************************)

\* optimizer.py:69-76
strategies ==
    << [bigger_first |-> TRUE, fix_point |-> TRUE, check_stable |-> TRUE,
        support_surface_ratio |-> 85],
       [bigger_first |-> TRUE, fix_point |-> TRUE, check_stable |-> FALSE,
        support_surface_ratio |-> 50],
       [bigger_first |-> TRUE, fix_point |-> FALSE, check_stable |-> FALSE,
        support_surface_ratio |-> 10] >>

\* optimizer.py:196, the keyword arguments of the fallback pack()
fallback_strategy ==
    [bigger_first |-> TRUE, fix_point |-> TRUE, check_stable |-> TRUE,
     support_surface_ratio |-> 75]

\* mutant: a fourth container orientation is searched
box_orientations_Four(box) ==
    << <<box.length, box.width, box.height>>,
       <<box.width, box.length, box.height>>,
       <<box.height, box.width, box.length>>,
       <<box.length, box.height, box.width>> >>

\* optimizer.py:82-86
box_orientations(box) ==
    << <<box.length, box.width, box.height>>,
       <<box.width, box.length, box.height>>,
       <<box.height, box.width, box.length>> >>

\* optimizer.py:88-92
default_obj_orientations(obj) ==
    << <<obj.length, obj.width, obj.height>>,
       <<obj.width, obj.length, obj.height>>,
       <<obj.height, obj.width, obj.length>> >>

\* mutant: the cap of 200 is left out
CappedItems_NoCap(grid_max) == grid_max

\* optimizer.py:54: min(200, grid_result['max_objects'])
CappedItems(grid_max) == Min(200, grid_max)

\* mutant: the minimum of 50 items is left out
ItemBudget_NoFloor(grid_max) ==
    Min(IF grid_max > 500 THEN CappedItems(grid_max) ELSE grid_max, 500)

\* optimizer.py:49-62: the item budget when max_attempts is None
ItemBudget(grid_max) ==
    LET MAX_REAL_ITEMS == IF grid_max > 500 THEN CappedItems(grid_max) ELSE grid_max
        capped == Min(MAX_REAL_ITEMS, 500)
    IN  IF capped > 50 THEN capped ELSE 50

\* optimizer.py:226-227 and 270: round((used_volume / box_volume) * 100, 2),
\* in hundredths of a percent (a tie rounds up here)
Efficiency(used_volume, box_volume) ==
    IF box_volume > 0
    THEN (2 * used_volume * 10000 + box_volume) \div (2 * box_volume)
    ELSE 0

\* a bin that is not a solver's: the synthesized grid bin, or no bin at all
GridBin == 0
NoBin == -1

\* no placement is emitted
NoReach == <<0, 0, 0>>

NoResult ==
    [max_objects |-> 0, efficiency |-> 0, box_volume |-> 0, used_volume |-> 0,
     bins |-> 0, items |-> 0, items_from |-> NoBin, layout |-> <<>>,
     reach |-> NoReach, error |-> "pending"]

\* optimizer.py:278-285
ErrorResult ==
    [max_objects |-> 0, efficiency |-> 0, box_volume |-> 0, used_volume |-> 0,
     bins |-> 0, items |-> 0, items_from |-> NoBin, layout |-> <<>>,
     reach |-> NoReach, error |-> "str(e)"]

\* mutant: best_count is not reset when a request starts
FreshBestCount_Stale(previous) == previous

\* optimizer.py:79: best_count = 0, whatever an earlier request left
FreshBestCount(previous) == 0

\* optimizer.py:43-107: the estimates, the item budget and the orientation lists
Begin ==
    /\ pc = "entry"
    /\ LET grid == calculate_grid_packing(box_dims, obj_dims)
       IN  /\ grid_result' = grid
           /\ theoretical' = IF max_attempts_arg.given THEN 0
                             ELSE calculate_theoretical_max(box_dims, obj_dims)
           /\ max_attempts' = IF max_attempts_arg.given THEN max_attempts_arg.value
                              ELSE ItemBudget(grid.max_objects)
           /\ obj_orientations' = IF grid.best_orientation # None
                                  THEN <<grid.best_orientation>>
                                  ELSE default_obj_orientations(obj_dims)
    /\ box_i' = 1
    /\ obj_i' = 1
    /\ best_count' = FreshBestCount(best_count)
    /\ best_result' = <<>>
    /\ pc' = "search"
    /\ box_items' = 0
    /\ UNCHANGED <<box_dims, obj_dims, max_attempts_arg, calls, search_max, placed,
                   result, run, agree, first>>
    /\ UNCHANGED <<file, extracted, is_processing, metadata, threads>>

\* optimizer.py:105
strategy == strategies[1]

TrialCall ==
    [kind |-> "trial", bin |-> box_orientations(box_dims)[box_i],
     item |-> obj_orientations[obj_i], n |-> max_attempts,
     strategy |-> strategy]

\* optimizer.py:150: the test that replaces the best trial
TrialImproves(current_count, best) == current_count > best

\* optimizer.py:108-165: one pass of the inner loop, the solver returning
Trial ==
    /\ pc = "search"
    /\ \E current_count \in SolverCounts(box_orientations(box_dims)[box_i],
                                         obj_orientations[obj_i], max_attempts,
                                         grid_result.max_objects) :
         LET improves == TrialImproves(current_count, best_count)
             new_best == IF improves THEN current_count ELSE best_count
             new_result == IF improves
                           THEN << [box_orientation |-> box_orientations(box_dims)[box_i],
                                    obj_orientation |-> obj_orientations[obj_i],
                                    strategy |-> strategy,
                                    count |-> current_count,
                                    items |-> current_count,
                                    call |-> Len(calls) + 1] >>
                           ELSE best_result
             inner_done == obj_i = Len(obj_orientations)
             outer_done == inner_done /\ (GoodEnough(new_best, max_attempts)
                                          \/ box_i = Len(box_orientations(box_dims)))
         IN  /\ calls' = Append(calls, TrialCall)
             /\ search_max' = IF current_count > search_max THEN current_count
                               ELSE search_max
             /\ Observe(current_count)
             /\ best_count' = new_best
             /\ best_result' = new_result
             /\ obj_i' = IF inner_done THEN 1 ELSE obj_i + 1
             /\ box_i' = IF inner_done /\ ~outer_done THEN box_i + 1 ELSE box_i
             /\ pc' = IF ~outer_done THEN "search"
                      ELSE IF new_result # <<>> THEN "aggregate" ELSE "fallback"
             /\ box_items' = IF outer_done /\ new_result # <<>>
                             THEN new_result[1].items ELSE box_items
    /\ UNCHANGED <<box_dims, obj_dims, max_attempts_arg, theoretical, grid_result,
                   max_attempts, obj_orientations, result, run>>
    /\ UNCHANGED <<file, extracted, is_processing, metadata, threads>>

\* optimizer.py:144 raising, caught at optimizer.py:277-285
TrialRaises ==
    /\ pc = "search"
    /\ calls' = Append(calls, TrialCall)
    /\ Observe(Raised)
    /\ result' = ErrorResult
    /\ pc' = "done"
    /\ UNCHANGED <<box_dims, obj_dims, max_attempts_arg, theoretical, grid_result,
                   max_attempts, obj_orientations, box_i, obj_i, best_count,
                   best_result, box_items, search_max, run>>
    /\ UNCHANGED <<file, extracted, is_processing, metadata, threads>>

FallbackCall ==
    [kind |-> "fallback",
     bin |-> <<box_dims.length, box_dims.width, box_dims.height>>,
     item |-> <<obj_dims.length, obj_dims.width, obj_dims.height>>,
     n |-> max_attempts, strategy |-> fallback_strategy]

\* optimizer.py:171-197: no trial placed an item, one more pack() on the
\* request's own orientation
Fallback ==
    /\ pc = "fallback"
    /\ \E packed \in SolverCounts(<<box_dims.length, box_dims.width, box_dims.height>>,
                                  <<obj_dims.length, obj_dims.width, obj_dims.height>>,
                                  max_attempts, grid_result.max_objects) :
         /\ calls' = Append(calls, FallbackCall)
         /\ Observe(packed)
         /\ box_items' = packed
    /\ pc' = "aggregate"
    /\ UNCHANGED <<box_dims, obj_dims, max_attempts_arg, theoretical, grid_result,
                   max_attempts, obj_orientations, box_i, obj_i, best_count,
                   best_result, result, search_max, run>>
    /\ UNCHANGED <<file, extracted, is_processing, metadata, threads>>

\* optimizer.py:196 raising, caught at optimizer.py:277-285
FallbackRaises ==
    /\ pc = "fallback"
    /\ calls' = Append(calls, FallbackCall)
    /\ Observe(Raised)
    /\ result' = ErrorResult
    /\ pc' = "done"
    /\ UNCHANGED <<box_dims, obj_dims, max_attempts_arg, theoretical, grid_result,
                   max_attempts, obj_orientations, box_i, obj_i, best_count,
                   best_result, box_items, search_max, run>>
    /\ UNCHANGED <<file, extracted, is_processing, metadata, threads>>

\* optimizer.py:430-488: the number of items _generate_grid_layout appends
GridLayoutItems(box, grid) ==
    IF grid.best_orientation = None THEN 0
    ELSE GridCount(box, grid.best_orientation)

\* optimizer.py:462-464: the pitch of the cells is the best orientation's size
GridPitch(obj, o) == o

\* optimizer.py:430-488: the items of the synthesized bin, in the order of the
\* loops over z, y and x; an item's dimensions are those it was created with
\* (rotation_type 0)
_generate_grid_layout(box, obj, grid) ==
    IF grid.best_orientation = None THEN <<>>
    ELSE LET o == grid.best_orientation
             pitch == GridPitch(obj, o)
             fit_length == Fit(box.length, o[1])
             fit_width == Fit(box.width, o[2])
             fit_height == Fit(box.height, o[3])
         IN  [ n \in 1..(fit_length * fit_width * fit_height) |->
                 LET x == (n - 1) % fit_length
                     y == ((n - 1) \div fit_length) % fit_width
                     z == (n - 1) \div (fit_length * fit_width)
                 IN  [position |-> <<x * pitch[1], y * pitch[2], z * pitch[3]>>,
                      dimensions |-> o,
                      rotation_type |-> 0] ]

\* the far corner of a list of placements: on each axis the largest
\* position + dimension (optimizer.py:254-261 copies both for every item)
FarCorner(items) ==
    IF items = <<>> THEN NoReach
    ELSE [a \in 1..3 |->
            LET ends == { items[n].position[a] + items[n].dimensions[a] :
                            n \in 1..Len(items) }
            IN  CHOOSE e \in ends : \A x \in ends : x <= e]

\* the far corners the items a pack() left in its bin may have: the solver
\* places every item inside the bin it was given, so they may reach that
\* bin's far corner on every axis; a single item may also lie at the origin
\* as it was requested
SolverReaches(bin, item, count) ==
    IF count = 0 THEN { NoReach }
    ELSE { bin } \cup (IF count = 1 /\ \A a \in 1..3 : item[a] <= bin[a]
                       THEN { item } ELSE {})

\* optimizer.py:216: the grid estimate is used when it beats the search
GridWins(grid_max, packed_items) == grid_max > packed_items

\* optimizer.py:204 and 226: used_volume = final_count * obj_volume
UsedVolume(final_count, obj) == final_count * Volume(obj)

\* optimizer.py:199-275
Aggregate ==
    /\ pc = "aggregate"
    /\ LET packed_items == box_items
           box_volume == Volume(box_dims)
           grid_wins == GridWins(grid_result.max_objects, packed_items)
           final_count == IF grid_wins THEN grid_result.max_objects ELSE packed_items
           items == IF grid_wins THEN GridLayoutItems(box_dims, grid_result)
                    ELSE box_items
           box == IF grid_wins THEN GridBin
                  ELSE IF best_result # <<>> THEN best_result[1].call
                  ELSE Len(calls)
           used_volume == UsedVolume(final_count, obj_dims)
           layout == IF grid_wins
                     THEN _generate_grid_layout(box_dims, obj_dims, grid_result)
                     ELSE <<>>
           WHD == IF best_result # <<>> THEN best_result[1].box_orientation
                  ELSE <<box_dims.length, box_dims.width, box_dims.height>>
           requested == IF best_result # <<>> THEN best_result[1].obj_orientation
                        ELSE <<obj_dims.length, obj_dims.width, obj_dims.height>>
           reaches == IF grid_wins THEN { FarCorner(layout) }
                      ELSE SolverReaches(WHD, requested, box_items)
       IN  /\ box_items' = items
           /\ \E reach \in reaches :
                 result' = [max_objects |-> final_count,
                            efficiency |-> Efficiency(used_volume, box_volume),
                            box_volume |-> box_volume,
                            used_volume |-> used_volume,
                            bins |-> 1, items |-> items, items_from |-> box,
                            layout |-> layout, reach |-> reach,
                            error |-> "None"]
    /\ pc' = "done"
    /\ UNCHANGED <<box_dims, obj_dims, max_attempts_arg, theoretical, grid_result,
                   max_attempts, obj_orientations, box_i, obj_i, best_count,
                   best_result, calls, search_max, placed, run, agree, first>>
    /\ UNCHANGED <<file, extracted, is_processing, metadata, threads>>

(***************************************************************************)
(* The requests.                                                           *)
(***************************************************************************)

\* a dimensions dict: axes o, profile <<shape_type, volume_factor>>
Dims(o, profile) ==
    [length |-> o[1], width |-> o[2], height |-> o[3],
     shape_type |-> profile[1], volume_factor |-> profile[2]]

\* optimizer.py:21-24: the defaults of a request that names no shape
Rectangular == <<"rectangular", 1000>>

\* stp_loader.py:153-163: profiles the extractor attaches to an item
ItemProfiles ==
    { Rectangular, <<"cylindrical", 785>>, <<"hexagonal", 866>>,
      <<"spherical", 524>>, <<"rectangular", 500>> }

NoMaxAttempts == [given |-> FALSE, value |-> 0]
MaxAttempts(n) == [given |-> TRUE, value |-> n]

Axes(m) == { <<a, b, c>> : a \in 1..m, b \in 1..m, c \in 1..m }

Request(b, bp, o, op, m) ==
    [box |-> Dims(b, bp), obj |-> Dims(o, op), max_attempts |-> m]

\* every small container against every small item, no max_attempts
SweptRequests ==
    { Request(b, Rectangular, o, op, NoMaxAttempts) :
        b \in Axes(MaxBoxAxis), o \in Axes(MaxObjAxis),
        op \in {Rectangular, <<"cylindrical", 785>>, <<"spherical", 524>>} }

\* 1000 x 800 x 600 mm, 1000 x 1000 x 1000 mm containers; 200 x 150 x 100 mm,
\* 100 x 100 x 100 mm, 100 x 100 x 50 mm, 250 x 200 x 150 mm items
LargeRequests ==
    { Request(b, bp, o, op, m) :
        b \in { <<20, 16, 12>>, <<20, 20, 20>> },
        bp \in { Rectangular, <<"hexagonal", 866>> },
        o \in { <<4, 3, 2>>, <<2, 2, 2>>, <<2, 2, 1>>, <<5, 4, 3>> },
        op \in ItemProfiles,
        m \in { NoMaxAttempts } }

\* requests that supply max_attempts
BudgetedRequests ==
    { Request(b, Rectangular, o, Rectangular, MaxAttempts(n)) :
        b \in { <<20, 16, 12>>, <<3, 2, 2>> },
        o \in { <<2, 2, 1>>, <<1, 1, 1>>, <<4, 4, 4>> },
        n \in { 0, 3, 300 } }

Requests == SweptRequests \cup LargeRequests \cup BudgetedRequests

\* the locals of optimize_packing before its first statement runs
Locals ==
    /\ pc = "entry"
    /\ theoretical = 0
    /\ grid_result = [max_objects |-> 0, best_orientation |-> None]
    /\ max_attempts = 0
    /\ obj_orientations = <<>>
    /\ box_i = 1
    /\ obj_i = 1
    /\ best_count = 0
    /\ best_result = <<>>
    /\ box_items = 0
    /\ calls = <<>>
    /\ search_max = 0
    /\ placed = <<>>
    /\ result = NoResult
    /\ agree = TRUE
    /\ first = [result |-> NoResult, placed |-> <<>>]

\* no extractor is at work during a packing request
NoExtraction ==
    /\ file = <<>>
    /\ extracted = [returned |-> FALSE, value |-> <<>>]

\* no batch is processed: the state __init__ leaves (app.py:33-34)
NoBatch ==
    /\ is_processing = FALSE
    /\ metadata = [boxes |-> 0, objects |-> 0]
    /\ threads = <<>>

\* one request
Init ==
    /\ \E r \in Requests :
         /\ box_dims = r.box
         /\ obj_dims = r.obj
         /\ max_attempts_arg = r.max_attempts
    /\ Locals
    /\ run = 0
    /\ NoExtraction
    /\ NoBatch

Next ==
    \/ Begin
    \/ Trial
    \/ TrialRaises
    \/ Fallback
    \/ FallbackRaises
    \/ Aggregate

Spec == Init /\ [][Next]_vars

(***************************************************************************)
(* The same request made MaxRuns times in a row.                           *)
(***************************************************************************)

\* requests whose searches are short enough to record every solver outcome
RepeatedRequests ==
    { Request(b, Rectangular, o, op, m) :
        b \in { <<1, 1, 1>>, <<2, 2, 1>>, <<3, 2, 2>>, <<20, 16, 12>> },
        o \in { <<1, 1, 1>>, <<2, 1, 1>>, <<4, 3, 2>> },
        op \in { Rectangular, <<"cylindrical", 785>> },
        m \in { NoMaxAttempts, MaxAttempts(3) } }

InitTwice ==
    /\ \E r \in RepeatedRequests :
         /\ box_dims = r.box
         /\ obj_dims = r.obj
         /\ max_attempts_arg = r.max_attempts
    /\ Locals
    /\ run = 1
    /\ NoExtraction
    /\ NoBatch

\* the caller invokes optimize_packing again on the same inputs; what the
\* first call left behind stays where it was until the new call assigns it
NextRequest ==
    /\ pc = "done"
    /\ run >= 1
    /\ run < MaxRuns
    /\ run' = run + 1
    /\ first' = IF run = 1
                THEN [result |-> [result EXCEPT !.layout = <<>>, !.reach = NoReach],
                      placed |-> placed]
                ELSE first
    /\ pc' = "entry"
    /\ calls' = <<>>
    /\ search_max' = 0
    /\ placed' = <<>>
    /\ agree' = (run = 1 \/ Len(first.placed) > 0)
    /\ result' = NoResult
    /\ UNCHANGED <<box_dims, obj_dims, max_attempts_arg, theoretical, grid_result,
                   max_attempts, obj_orientations, box_i, obj_i, best_count,
                   best_result, box_items>>
    /\ UNCHANGED <<file, extracted, is_processing, metadata, threads>>

NextTwice ==
    \/ Next
    \/ NextRequest

SpecTwice == InitTwice /\ [][NextTwice]_vars


(***************************************************************************)
(* The dimension extractors (src/src/packassist/stp_loader.py and          *)
(* stl_loader.py).  A geometry source is described by what the extractor   *)
(* reads of it: whether it exists and can be opened, what the regular      *)
(* expressions find in its name and content, and its size.  Extracted      *)
(* lengths are in hundredths of a millimetre, volume factors in            *)
(* thousandths.  A numeric text is a sequence of the characters "0".."9"   *)
(* and "."; the texts drawn here have at most two fractional digits.       *)
(***************************************************************************)

DigitValue(c) ==
    CASE c = "0" -> 0 [] c = "1" -> 1 [] c = "2" -> 2 [] c = "3" -> 3
      [] c = "4" -> 4 [] c = "5" -> 5 [] c = "6" -> 6 [] c = "7" -> 7
      [] c = "8" -> 8 [] c = "9" -> 9

RECURSIVE IntOf(_)
IntOf(digits) ==
    IF digits = <<>> THEN 0
    ELSE 10 * IntOf(SubSeq(digits, 1, Len(digits) - 1))
           + DigitValue(digits[Len(digits)])

Dots(text) == { i \in 1..Len(text) : text[i] = "." }

\* Python float(text) raises ValueError: more than one point, or no digit
FloatRaises(text) ==
    \/ Cardinality(Dots(text)) > 1
    \/ \A i \in 1..Len(text) : text[i] = "."

\* Python float(text), in hundredths
Float(text) ==
    LET point == IF Dots(text) = {} THEN Len(text) + 1
                 ELSE CHOOSE i \in Dots(text) : TRUE
        whole == SubSeq(text, 1, point - 1)
        fraction == SubSeq(text, point + 1, Len(text))
    IN  100 * IntOf(whole)
          + (IF Len(fraction) = 0 THEN 0
             ELSE IF Len(fraction) = 1 THEN 10 * IntOf(fraction)
             ELSE IntOf(SubSeq(fraction, 1, 2)))

\* a dimensions dict of the extractors
Dimensions(length, width, height, shape_type, volume_factor) ==
    [length |-> length, width |-> width, height |-> height,
     shape_type |-> shape_type, volume_factor |-> volume_factor]

\* stp_loader.py:65-78, in the order of the dict
complex_patterns ==
    << <<"hexagon", Dimensions(20000, 17320, 10000, "hexagonal", 866)>>,
       <<"triangle", Dimensions(20000, 17320, 10000, "triangular", 500)>>,
       <<"cylinder", Dimensions(20000, 20000, 15000, "cylindrical", 785)>>,
       <<"sphere", Dimensions(15000, 15000, 15000, "spherical", 524)>>,
       <<"cone", Dimensions(10000, 10000, 15000, "conical", 262)>>,
       <<"octagon", Dimensions(20000, 18300, 10000, "octagonal", 828)>>,
       <<"pentagon", Dimensions(20000, 19020, 10000, "pentagonal", 688)>>,
       <<"caixa_petita", Dimensions(20000, 15000, 10000, "rectangular", 1000)>>,
       <<"box_small", Dimensions(20000, 15000, 10000, "rectangular", 1000)>>,
       <<"box_medium", Dimensions(40000, 30000, 20000, "rectangular", 1000)>>,
       <<"box_large", Dimensions(80000, 60000, 40000, "rectangular", 1000)>> >>

\* stp_loader.py:153-163, in the order of the dict
filename_patterns ==
    << <<"hexagon", "hexagonal", 866>>, <<"triangle", "triangular", 500>>,
       <<"cylinder", "cylindrical", 785>>, <<"sphere", "spherical", 524>>,
       <<"cone", "conical", 262>>, <<"octagon", "octagonal", 828>>,
       <<"pentagon", "pentagonal", 688>>, <<"ellipse", "elliptical", 785>>,
       <<"oval", "elliptical", 785>> >>

\* the first entry of an ordered table whose key the set holds, 0 when none
FirstIn(table, keys) ==
    IF \E i \in 1..Len(table) : table[i][1] \in keys
    THEN CHOOSE i \in 1..Len(table) :
            /\ table[i][1] \in keys
            /\ \A j \in 1..(i - 1) : table[j][1] \notin keys
    ELSE 0

\* "entity in content": a marker is found when it is written in the content
\* or is a part of a longer marker that is
Found(entity, markers) ==
    \/ entity \in markers
    \/ entity = "B_SPLINE" /\ markers \cap {"B_SPLINE_SURFACE", "B_SPLINE_CURVE"} # {}

\* _detect_polygon_type with the octagon taken from seven faces up
_detect_polygon_type_Seven(plane_count) ==
    IF plane_count >= 7 THEN <<"octagonal", 828>>
    ELSE IF plane_count >= 6 THEN <<"hexagonal", 866>>
    ELSE IF plane_count >= 5 THEN <<"pentagonal", 688>>
    ELSE IF plane_count >= 3 THEN <<"triangular", 500>>
    ELSE None

\* stp_loader.py:223-242
_detect_polygon_type(plane_count) ==
    IF plane_count >= 8 THEN <<"octagonal", 828>>
    ELSE IF plane_count >= 6 THEN <<"hexagonal", 866>>
    ELSE IF plane_count >= 5 THEN <<"pentagonal", 688>>
    ELSE IF plane_count >= 3 THEN <<"triangular", 500>>
    ELSE None

\* stp_loader.py:145-221: the shape profile <<shape_type, volume_factor>> from
\* the fragments of the file name and the entity markers of the content
_detect_shape_type_from_content(f) ==
    LET by_name == FirstIn(filename_patterns, f.fragments)
        has(entity) == Found(entity, f.markers)
        plane_count == f.plane_count
    IN  IF by_name # 0
        THEN <<filename_patterns[by_name][2], filename_patterns[by_name][3]>>
        ELSE IF has("SPHERICAL_SURFACE") THEN <<"spherical", 524>>
        ELSE IF has("CYLINDRICAL_SURFACE") /\ has("CIRCLE") THEN <<"cylindrical", 785>>
        ELSE IF has("CYLINDRICAL_SURFACE") THEN <<"cylindrical", 785>>
        ELSE IF has("CONICAL_SURFACE") THEN <<"conical", 262>>
        ELSE IF has("B_SPLINE_SURFACE") /\ has("TRIMMED_CURVE")
             THEN <<"complex_curved", 650>>
        ELSE IF has("B_SPLINE_CURVE") /\ has("NURBS") THEN <<"complex_curved", 700>>
        ELSE IF has("ELLIPSE") THEN <<"elliptical", 785>>
        ELSE IF has("CIRCLE") THEN <<"circular", 785>>
        ELSE IF plane_count >= 1
             THEN IF _detect_polygon_type(plane_count) # None
                  THEN _detect_polygon_type(plane_count)
                  ELSE <<"polygonal", 800>>
        ELSE IF plane_count >= 6
             THEN IF plane_count >= 8 THEN <<"octagonal", 828>>
                  ELSE <<"hexagonal", 866>>
        ELSE IF plane_count >= 3 THEN <<"triangular", 500>>
        ELSE <<"rectangular", 1000>>

Coordinates(points, axis) == { points[i][axis] : i \in 1..Len(points) }
SetMin(S) == CHOOSE m \in S : \A x \in S : m <= x
SetMax(S) == CHOOSE m \in S : \A x \in S : x <= m
Max(a, b) == IF a > b THEN a ELSE b

\* stp_loader.py:320-327: max - min of one axis, floored at 1.0
BoundingAxis(points, axis) ==
    LET extent == SetMax(Coordinates(points, axis)) - SetMin(Coordinates(points, axis))
    IN  IF extent > 100 THEN extent ELSE 100

\* the members of a sequence
Members(seq) == { seq[i] : i \in 1..Len(seq) }

\* sorted(...) of a set of integers, ascending
RECURSIVE Ascending(_)
Ascending(S) ==
    IF S = {} THEN <<>> ELSE <<SetMin(S)>> \o Ascending(S \ {SetMin(S)})

\* Python's order of the tuples (x, y)
LexLess(p, q) == p[1] < q[1] \/ (p[1] = q[1] /\ p[2] < q[2])

\* stp_loader.py:647: sorted(set(points))
RECURSIVE SortedPoints(_)
SortedPoints(S) ==
    IF S = {} THEN <<>>
    ELSE LET least == CHOOSE p \in S : \A q \in S : p = q \/ LexLess(p, q)
         IN  <<least>> \o SortedPoints(S \ {least})

\* stp_loader.py:643-644
cross_product(o, a, b) ==
    (a[1] - o[1]) * (b[2] - o[2]) - (a[2] - o[2]) * (b[1] - o[1])

\* stp_loader.py:654-655 and 661-662: the while loop that pops the chain
RECURSIVE Popped(_, _)
Popped(chain, p) ==
    IF Len(chain) >= 2 /\ cross_product(chain[Len(chain) - 1], chain[Len(chain)], p) <= 0
    THEN Popped(SubSeq(chain, 1, Len(chain) - 1), p)
    ELSE chain

\* stp_loader.py:651-663: one half of the hull, over the points from index i
RECURSIVE HalfHull(_, _, _)
HalfHull(points, i, chain) ==
    IF i > Len(points) THEN chain
    ELSE HalfHull(points, i + 1, Append(Popped(chain, points[i]), points[i]))

Reversed(seq) == [i \in 1..Len(seq) |-> seq[Len(seq) + 1 - i]]

\* stp_loader.py:635-666, on a sequence of points <<x, y>>
_compute_convex_hull(points) ==
    IF Len(points) < 3 THEN points
    ELSE LET sorted == SortedPoints(Members(points))
             lower == HalfHull(sorted, 1, <<>>)
             upper == HalfHull(Reversed(sorted), 1, <<>>)
         IN  IF Len(sorted) <= 1 THEN sorted
             ELSE SubSeq(lower, 1, Len(lower) - 1) \o SubSeq(upper, 1, Len(upper) - 1)

\* stp_loader.py:607-633
_detect_polygon_from_points(points) ==
    LET num_vertices == Len(_compute_convex_hull(points))
    IN  IF Len(points) < 6 THEN <<"rectangular", 1000>>
        ELSE IF num_vertices <= 4 THEN <<"rectangular", 1000>>
        ELSE IF num_vertices = 5 THEN <<"pentagonal", 688>>
        ELSE IF num_vertices = 6 THEN <<"hexagonal", 866>>
        ELSE IF num_vertices = 8 THEN <<"octagonal", 828>>
        ELSE IF num_vertices >= 12 THEN <<"circular", 785>>
        ELSE <<"polygonal", 750>>

\* stp_loader.py:556-560: the heights sampled, unique_z[::max(1, len // 5)]
SampledLevels(points) ==
    LET unique_z == Ascending(Coordinates(points, 3))
        step == Max(1, Len(unique_z) \div 5)
    IN  SelectSeq(unique_z, LAMBDA z :
            \E k \in 0..Len(unique_z) :
                1 + k * step <= Len(unique_z) /\ unique_z[1 + k * step] = z)

\* stp_loader.py:557-559: the (x, y) of the points within 0.1 of a height
LevelPoints(points, z_level) ==
    LET near == SelectSeq(points, LAMBDA q :
                    q[3] - z_level < 10 /\ z_level - q[3] < 10)
    IN  [i \in 1..Len(near) |-> <<near[i][1], near[i][2]>>]

\* stp_loader.py:555-561: the heights that keep a cross-section
CrossSectionLevels(points) ==
    SelectSeq(SampledLevels(points), LAMBDA z : Len(LevelPoints(points, z)) > 5)

\* stp_loader.py:565: max(cross_sections.values(), key=len), the first of the
\* most populated ones
LargestSection(points) ==
    LET levels == CrossSectionLevels(points)
        most == SetMax({ Len(LevelPoints(points, levels[i])) : i \in 1..Len(levels) })
        first_most == CHOOSE i \in 1..Len(levels) :
                        /\ Len(LevelPoints(points, levels[i])) = most
                        /\ \A j \in 1..(i - 1) :
                              Len(LevelPoints(points, levels[j])) < most
    IN  LevelPoints(points, levels[first_most])

Abs(x) == IF x < 0 THEN -x ELSE x

\* stp_loader.py:684-690: the square of twice the distance, in hundredths, of
\* point q from the centre of the bounding rectangle
Distance2(points, q) ==
    LET dx == 2 * q[1] - (SetMax(Coordinates(points, 1)) + SetMin(Coordinates(points, 1)))
        dy == 2 * q[2] - (SetMax(Coordinates(points, 2)) + SetMin(Coordinates(points, 2)))
    IN  dx * dx + dy * dy

\* the largest whole number whose square does not exceed n
RECURSIVE RootBetween(_, _, _)
RootBetween(n, low, high) ==
    IF low >= high THEN low
    ELSE LET mid == (low + high + 1) \div 2
         IN  IF mid * mid <= n THEN RootBetween(n, mid, high)
             ELSE RootBetween(n, low, mid - 1)

MaxRoot == 40000
Root(n) == RootBetween(n, 0, MaxRoot)

\* stp_loader.py:696: round(d, 1) in tenths, d being half the root of d2 in
\* hundredths (no distance drawn here lies half-way between two tenths)
RoundedRadius(d2) == (Root(d2) + 10) \div 20

\* stp_loader.py:706: abs(dist - d) < 1.0 for the distance of square d2 and
\* the rounded radius r
WithinOne(d2, r) ==
    /\ d2 < (20 * r + 200) * (20 * r + 200)
    /\ 20 * r - 200 < 0 \/ d2 > (20 * r - 200) * (20 * r - 200)

\* stp_loader.py:668-714
_detect_circular_pattern(f) ==
    LET distances == [i \in 1..Len(f.points) |-> Distance2(f.points, f.points[i])]
        unique_distances ==
            { RoundedRadius(distances[i]) : i \in { j \in 1..Len(f.points) : distances[j] > 0 } }
        populated == { r \in unique_distances :
                        Cardinality({ i \in 1..Len(f.points) : WithinOne(distances[i], r) }) >= 4 }
    IN  IF Found("CIRCLE", f.markers) \/ Found("CYLINDRICAL_SURFACE", f.markers)
            \/ Found("ARC", f.markers)
        THEN TRUE
        ELSE IF Len(f.points) < 8 THEN FALSE
        ELSE IF Cardinality(unique_distances) >= 3 THEN Cardinality(populated) >= 2
        ELSE FALSE

\* stp_loader.py:716-741; dimension_variance3 is three times the variance, so
\* that dimension_variance < 0.2 * avg_range reads 5 * dimension_variance3 < total
_detect_spherical_pattern(f) ==
    LET range(axis) == SetMax(Coordinates(f.points, axis)) - SetMin(Coordinates(f.points, axis))
        total == range(1) + range(2) + range(3)
        dimension_variance3 ==
            Max(Abs(3 * range(1) - total),
                Max(Abs(3 * range(2) - total), Abs(3 * range(3) - total)))
    IN  IF Found("SPHERICAL_SURFACE", f.markers) THEN TRUE
        ELSE 5 * dimension_variance3 < total /\ Len(f.points) > 20

\* stp_loader.py:543-605: the shape details of the point cloud
_analyze_point_cloud_geometry(f) ==
    LET polygon == _detect_polygon_from_points(LargestSection(f.points))
    IN  IF CrossSectionLevels(f.points) # <<>> /\ polygon[1] # "rectangular"
        THEN [detected_shape |-> polygon[1], volume_factor |-> polygon[2],
              cross_section_points |-> Len(LargestSection(f.points)),
              is_complex_geometry |-> TRUE]
        ELSE IF _detect_circular_pattern(f)
        THEN [detected_shape |-> "cylindrical", volume_factor |-> 785,
              is_complex_geometry |-> TRUE]
        ELSE IF _detect_spherical_pattern(f)
        THEN [detected_shape |-> "spherical", volume_factor |-> 524,
              is_complex_geometry |-> TRUE]
        ELSE [detected_shape |-> "rectangular", volume_factor |-> 1000,
              is_complex_geometry |-> FALSE]

\* a dict of _analyze_stp_geometry: the three axes and, for a point cloud,
\* the shape details that result.update(shape_details) adds (342), else None
Geometry(length, width, height, shape_details) ==
    [length |-> length, width |-> width, height |-> height,
     shape_details |-> shape_details]

\* stp_loader.py:304-402
_analyze_stp_geometry(f) ==
    LET has(entity) == Found(entity, f.markers)
        circular == has("CIRCLE")
        cylindrical == has("CYLINDRICAL_SURFACE")
        spherical == has("SPHERICAL_SURFACE")
        conical == has("CONICAL_SURFACE")
        complex == has("B_SPLINE") \/ has("TRIMMED_CURVE")
        base_dim == 50 + (f.file_size % 300)
        base_size == 50 + (f.file_size % 200)
    IN  IF Len(f.points) > 0
        THEN Geometry(BoundingAxis(f.points, 1), BoundingAxis(f.points, 2),
                      BoundingAxis(f.points, 3),
                      << _analyze_point_cloud_geometry(f) >>)
        ELSE IF cylindrical \/ circular
             THEN Geometry(base_dim * 150, base_dim * 150, base_dim * 200, None)
        ELSE IF spherical
             THEN Geometry(base_dim * 120, base_dim * 120, base_dim * 120, None)
        ELSE IF complex
             THEN Geometry(base_dim * 180, base_dim * 130, base_dim * 110, None)
        ELSE Geometry(base_size * 200, base_size * 150, base_size * 100, None)

\* stp_loader.py:100-143: _analyze_stp_geometry always supplies the three
\* axes, so the estimate by shape (122-131) is never taken; of the dict only
\* the three axes are read (113-120)
_analyze_advanced_geometry(f) ==
    LET geometry_result == _analyze_stp_geometry(f)
        profile == _detect_shape_type_from_content(f)
    IN  Dimensions(geometry_result.length, geometry_result.width,
                   geometry_result.height, profile[1], profile[2])

\* stp_loader.py:43-62: the content is read and yields a result; an exception
\* of open() or of float() is caught at 61 and the name patterns follow
ContentRaises(f) ==
    \/ ~f.openable
    \/ /\ f.comment_match # None
       /\ \E i \in 1..3 : FloatRaises(f.comment_match[i])

\* stp_loader.py:14-98: None, or <<dimensions dict>>
get_stp_dimensions(f) ==
    LET pattern == FirstIn(complex_patterns, f.fragments)
        base_size == 50 + (f.file_size % 500)
    IN  IF ~f.exists THEN None
        ELSE IF f.name_match # None
             THEN << Dimensions(Float(f.name_match[1]), Float(f.name_match[2]),
                                Float(f.name_match[3]), "rectangular", 1000) >>
        ELSE IF f.ext_stp /\ ~ContentRaises(f)
             THEN IF f.comment_match # None
                  THEN << Dimensions(Float(f.comment_match[1]),
                                     Float(f.comment_match[2]),
                                     Float(f.comment_match[3]), "rectangular", 1000) >>
                  ELSE << _analyze_advanced_geometry(f) >>
        ELSE IF pattern # 0 THEN << complex_patterns[pattern][2] >>
        ELSE << Dimensions(base_size * 200, base_size * 150, base_size * 100,
                           "unknown", 800) >>

\* stl_loader.py:43-45: round(float(d), 2) of an extent in thousandths, in
\* hundredths
Round2(thousandths) == (thousandths + 5) \div 10

\* stl_loader.py:6-57; vertices are what read_stl_vertices returns, in
\* thousandths of a millimetre, and reading an unopenable file raises; the
\* volume is in hundredths of a cubic millimetre
get_stl_dimensions(f) ==
    LET extent(axis) == SetMax(Coordinates(f.vertices, axis))
                          - SetMin(Coordinates(f.vertices, axis))
    IN  IF ~f.exists \/ ~f.ext_stl \/ ~f.openable THEN None
        ELSE IF Len(f.vertices) = 0 THEN None
        ELSE IF \E axis \in 1..3 : extent(axis) <= 0 THEN None
        ELSE << [length |-> Round2(extent(1)), width |-> Round2(extent(2)),
                 height |-> Round2(extent(3)),
                 volume |-> ((extent(1) * extent(2) * extent(3)) + 5000000)
                               \div 10000000] >>

(***************************************************************************)
(* The geometry sources and the specification of the extractors.           *)
(***************************************************************************)

\* an existing, readable .stp file whose name and content tell nothing
PlainStp ==
    [kind |-> "stp", exists |-> TRUE, openable |-> TRUE, ext_stp |-> TRUE,
     name_match |-> None, fragments |-> {}, file_size |-> 1234,
     comment_match |-> None, points |-> <<>>, markers |-> {}, plane_count |-> 0]

\* the groups of stp_loader.py:30 in a file name: digits, or digits.digits
NameTexts ==
    { <<"0">>, <<"5">>, <<"1", "0", "0">>, <<"0", ".", "5">>,
      <<"8", "0", ".", "2", "5">> }

\* the groups of stp_loader.py:48 in a comment: digits and points in any order
CommentTexts ==
    { <<"0">>, <<"6", "0">>, <<".">>, <<"1", ".", "2", ".", "3">>,
      <<"2", ".", "5">>, <<".", "5">> }

FileSizes == { 0, 1, 149, 250, 449, 450, 499, 500, 9999, 10000, 12345 }

\* CARTESIAN_POINT coordinates, in hundredths
SamplePoints ==
    { <<0, 0, 0>>, <<500, 0, 50>>, <<-250, 300, 1000>>, <<500, 300, 0>> }

MarkerSets ==
    { {}, {"CIRCLE"}, {"CYLINDRICAL_SURFACE"}, {"CYLINDRICAL_SURFACE", "CIRCLE"},
      {"SPHERICAL_SURFACE"}, {"CONICAL_SURFACE"}, {"B_SPLINE_SURFACE"},
      {"B_SPLINE_SURFACE", "TRIMMED_CURVE"}, {"B_SPLINE_CURVE", "NURBS"},
      {"TRIMMED_CURVE"}, {"ELLIPSE"}, {"NURBS"}, {"SPHERICAL_SURFACE", "CIRCLE"} }

PlaneCounts == 0..9

Fragments ==
    { "hexagon", "triangle", "cylinder", "sphere", "cone", "octagon", "pentagon",
      "ellipse", "oval", "caixa_petita", "box_small", "box_medium", "box_large" }

MissingFiles ==
    { [PlainStp EXCEPT !.exists = FALSE, !.openable = FALSE, !.ext_stp = e,
                       !.name_match = n] :
        e \in BOOLEAN, n \in { None, << <<"5">>, <<"5">>, <<"5">> >> } }

NameEncodedFiles ==
    { [PlainStp EXCEPT !.name_match = <<a, b, c>>, !.openable = o] :
        a \in NameTexts, b \in NameTexts, c \in NameTexts, o \in BOOLEAN }

CommentedFiles ==
    { [PlainStp EXCEPT !.comment_match = <<a, b, c>>, !.fragments = g] :
        a \in CommentTexts, b \in CommentTexts, c \in CommentTexts,
        g \in { {}, {"sphere"} } }

PointFiles ==
    { [PlainStp EXCEPT !.points = ps, !.markers = m] :
        ps \in { <<a>> : a \in SamplePoints }
                 \cup { <<a, b>> : a \in SamplePoints, b \in SamplePoints },
        m \in { {}, {"CIRCLE"}, {"SPHERICAL_SURFACE"} } }

MarkedFiles ==
    { [PlainStp EXCEPT !.markers = m, !.plane_count = n, !.file_size = z] :
        m \in MarkerSets, n \in PlaneCounts, z \in { 250, 1234, 12345 } }

NamedFiles ==
    { [PlainStp EXCEPT !.fragments = g, !.ext_stp = e, !.openable = o] :
        g \in { {x} : x \in Fragments } \cup { {"box_small", "cone"}, {"oval", "sphere"} },
        e \in BOOLEAN, o \in BOOLEAN }

SizedFiles ==
    { [PlainStp EXCEPT !.file_size = z, !.ext_stp = e, !.openable = o] :
        z \in FileSizes, e \in BOOLEAN, o \in BOOLEAN }

\* the six corners of a hexagonal cross-section at height z, in hundredths
HexagonAt(z) ==
    << <<10000, 0, z>>, <<5000, 8660, z>>, <<-5000, 8660, z>>,
       <<-10000, 0, z>>, <<-5000, -8660, z>>, <<5000, -8660, z>> >>

\* the three corners of a triangular cross-section at height z
TriangleAt(z) == << <<0, 0, z>>, <<10000, 0, z>>, <<5000, 8660, z>> >>

\* src/create_test_objects.py:19-180, the four files it writes: the name of
\* each encodes its dimensions, and none of their comments has the form the
\* expression of stp_loader.py:48 looks for
hexagonal_box ==
    [PlainStp EXCEPT !.name_match = << <<"2", "0", "0">>, <<"1", "7", "3">>,
                                       <<"1", "0", "0">> >>,
                     !.fragments = {"hexagon"}, !.file_size = 1392,
                     !.points = HexagonAt(0) \o HexagonAt(10000)]

cylindrical_object ==
    [PlainStp EXCEPT !.name_match = << <<"8", "0">>, <<"8", "0">>, <<"1", "2", "0">> >>,
                     !.file_size = 1001,
                     !.markers = {"CYLINDRICAL_SURFACE", "CIRCLE"},
                     !.points = << <<0, 0, 0>>, <<0, 0, 12000>> >>]

complex_curved_object ==
    [PlainStp EXCEPT !.name_match = << <<"1", "5", "0">>, <<"1", "0", "0">>,
                                       <<"8", "0">> >>,
                     !.file_size = 1367,
                     !.markers = {"B_SPLINE_SURFACE", "B_SPLINE_CURVE", "TRIMMED_CURVE"},
                     !.points = << <<0, 0, 0>>, <<7500, 2500, 2000>>,
                                   <<15000, 5000, 4000>>, <<12500, 7500, 6000>>,
                                   <<5000, 10000, 8000>> >>]

triangular_prism ==
    [PlainStp EXCEPT !.name_match = << <<"1", "0", "0">>, <<"8", "7">>, <<"5", "0">> >>,
                     !.file_size = 1099,
                     !.points = TriangleAt(0) \o TriangleAt(5000)]

\* the four files, and the same contents under a name that tells nothing
TestObjectFiles ==
    { hexagonal_box, cylindrical_object, complex_curved_object, triangular_prism }
      \cup { [written EXCEPT !.name_match = None, !.fragments = {}] :
                written \in { hexagonal_box, cylindrical_object,
                              complex_curved_object, triangular_prism } }

\* a pentagon and a point inside it
PentagonSection ==
    << <<0, 0, 0>>, <<400, 0, 0>>, <<500, 300, 0>>, <<200, 500, 0>>,
       <<-100, 300, 0>>, <<200, 200, 0>> >>

\* a rectangle and the midpoints of its long sides
RectangleSection ==
    << <<0, 0, 0>>, <<400, 0, 0>>, <<400, 200, 0>>, <<0, 200, 0>>,
       <<200, 0, 0>>, <<200, 200, 0>> >>

HeptagonSection ==
    << <<0, 0, 0>>, <<300, -100, 0>>, <<600, 0, 0>>, <<700, 300, 0>>,
       <<500, 600, 0>>, <<200, 600, 0>>, <<-100, 300, 0>> >>

OctagonSection ==
    << <<100, 0, 0>>, <<200, 0, 0>>, <<300, 100, 0>>, <<300, 200, 0>>,
       <<200, 300, 0>>, <<100, 300, 0>>, <<0, 200, 0>>, <<0, 100, 0>> >>

\* twelve points of a circle of radius 100.00
DodecagonSection ==
    << <<10000, 0, 0>>, <<8660, 5000, 0>>, <<5000, 8660, 0>>,
       <<0, 10000, 0>>, <<-5000, 8660, 0>>, <<-8660, 5000, 0>>,
       <<-10000, 0, 0>>, <<-8660, -5000, 0>>, <<-5000, -8660, 0>>,
       <<0, -10000, 0>>, <<5000, -8660, 0>>, <<8660, -5000, 0>> >>

SquareAt(a, z) == << <<a, a, z>>, <<a, -a, z>>, <<-a, a, z>>, <<-a, -a, z>> >>

\* the corners of three concentric squares
ConcentricSection == SquareAt(10000, 0) \o SquareAt(5000, 0) \o SquareAt(2000, 0)

\* the corners of a cube: four points at each height
CubeCloud == SquareAt(500, 0) \o SquareAt(500, 1000)

\* a lattice of 2 x 3 x 4 points that fills a cube
LatticeCloud ==
    [n \in 1..24 |->
        << 10000 * (((n - 1) \div 3) % 2), 5000 * ((n - 1) % 3),
           <<0, 3300, 6600, 10000>>[((n - 1) \div 6) + 1] >>]

\* readable sources whose points form cross-sections
SectionFiles ==
    { [PlainStp EXCEPT !.points = ps, !.markers = m] :
        ps \in { HexagonAt(0), PentagonSection, RectangleSection, HeptagonSection,
                 OctagonSection, DodecagonSection, ConcentricSection, CubeCloud,
                 LatticeCloud },
        m \in { {}, {"CIRCLE"}, {"SPHERICAL_SURFACE"} } }

StpFiles ==
    MissingFiles \cup NameEncodedFiles \cup CommentedFiles \cup PointFiles
      \cup MarkedFiles \cup NamedFiles \cup SizedFiles \cup TestObjectFiles
      \cup SectionFiles

\* vertex coordinates, in thousandths
SampleVertices ==
    { <<0, 0, 0>>, <<1000, 500, 4>>, <<1000, 500, 250>>, <<-500, 20, 250>>,
      <<1000, 0, 0>> }

StlFiles ==
    { [kind |-> "stl", exists |-> x, openable |-> o, ext_stl |-> e, vertices |-> vs] :
        x \in BOOLEAN, o \in BOOLEAN, e \in BOOLEAN,
        vs \in { <<>> } \cup { <<a>> : a \in SampleVertices }
                \cup { <<a, b>> : a \in SampleVertices, b \in SampleVertices } }

Pending == [returned |-> FALSE, value |-> <<>>]

\* one call of get_stp_dimensions(file_path)
GetStpDimensions ==
    /\ file.kind = "stp"
    /\ ~extracted.returned
    /\ extracted' = [returned |-> TRUE, value |-> get_stp_dimensions(file)]
    /\ UNCHANGED <<box_dims, obj_dims, max_attempts_arg, pc, theoretical,
                   grid_result, max_attempts, obj_orientations, box_i, obj_i,
                   best_count, best_result, box_items, calls, search_max,
                   placed, result, run, agree, first, file>>
    /\ UNCHANGED <<is_processing, metadata, threads>>

\* one call of get_stl_dimensions(file_path)
GetStlDimensions ==
    /\ file.kind = "stl"
    /\ ~extracted.returned
    /\ extracted' = [returned |-> TRUE, value |-> get_stl_dimensions(file)]
    /\ UNCHANGED <<box_dims, obj_dims, max_attempts_arg, pc, theoretical,
                   grid_result, max_attempts, obj_orientations, box_i, obj_i,
                   best_count, best_result, box_items, calls, search_max,
                   placed, result, run, agree, first, file>>
    /\ UNCHANGED <<is_processing, metadata, threads>>

\* an extractor is handed a source; no packing request is in progress
InitExtract ==
    /\ file \in StpFiles \cup StlFiles
    /\ extracted = Pending
    /\ box_dims = Dims(<<20, 16, 12>>, Rectangular)
    /\ obj_dims = Dims(<<4, 3, 2>>, Rectangular)
    /\ max_attempts_arg = NoMaxAttempts
    /\ Locals
    /\ run = 0
    /\ NoBatch

NextExtract ==
    \/ GetStpDimensions
    \/ GetStlDimensions

SpecExtract == InitExtract /\ [][NextExtract]_vars

(***************************************************************************)
(* Batch processing in the GUI (app.py): the handlers of the two buttons   *)
(* run on the GUI thread, one at a time; the steps of the worker threads   *)
(* interleave with them and with each other.                               *)
(***************************************************************************)

\* the packing state is not looked at while a batch is processed
NoRequest ==
    UNCHANGED <<box_dims, obj_dims, max_attempts_arg, pc, theoretical,
                grid_result, max_attempts, obj_orientations, box_i, obj_i,
                best_count, best_result, box_items, calls, search_max,
                placed, result, run, agree, first, file, extracted>>

\* a thread as threading.Thread(target=self._process_files_thread) creates it
NewThread ==
    [at |-> "try", box |-> 1, obj |-> 1, broke |-> FALSE, ended |-> "running",
     stop_called |-> FALSE]

Terminated(t) == t.at = "terminated"

\* the threads that have been started and have not returned
Running == { i \in 1..Len(threads) : ~Terminated(threads[i]) }

\* process_all_files, app.py:867-894: returns at once while is_processing is
\* set (869-870) or when boxes or objects are missing (872-889); otherwise
\* sets the flag and starts a worker
process_all_files ==
    /\ ~is_processing
    /\ metadata.boxes > 0
    /\ metadata.objects > 0
    /\ Len(threads) < MaxThreads
    /\ is_processing' = TRUE
    /\ threads' = Append(threads, NewThread)
    /\ UNCHANGED metadata
    /\ NoRequest

\* stop_processing, app.py:968-971
stop_processing ==
    /\ is_processing' = FALSE
    /\ threads' = [i \in 1..Len(threads) |->
                     IF Terminated(threads[i]) THEN threads[i]
                     ELSE [threads[i] EXCEPT !.stop_called = TRUE]]
    /\ UNCHANGED metadata
    /\ NoRequest

\* one step of thread i replaces its record
Step(i, t) ==
    /\ threads' = [threads EXCEPT ![i] = t]
    /\ UNCHANGED <<is_processing, metadata>>
    /\ NoRequest

\* app.py:898-904: the header is written
WorkerBegins(i) ==
    /\ threads[i].at = "try"
    /\ Step(i, [threads[i] EXCEPT !.at = "boxes"])

\* app.py:906-915: the head of the outer loop; the box's dimensions are read
\* (available) or not
WorkerNextBox(i) ==
    /\ threads[i].at = "boxes"
    /\ LET t == threads[i]
       IN  IF t.box > metadata.boxes
           THEN Step(i, [t EXCEPT !.at = "report"])
           ELSE IF ~is_processing
           THEN Step(i, [t EXCEPT !.at = "report", !.broke = TRUE])
           ELSE \E available \in BOOLEAN :
                  IF available
                  THEN Step(i, [t EXCEPT !.at = "objects", !.obj = 1])
                  ELSE Step(i, [t EXCEPT !.box = @ + 1])

\* app.py:917-927: the head of the inner loop; the object's dimensions are
\* read or not; leaving the inner loop goes on with the next box (950)
WorkerNextObject(i) ==
    /\ threads[i].at = "objects"
    /\ LET t == threads[i]
       IN  IF t.obj > metadata.objects
           THEN Step(i, [t EXCEPT !.at = "boxes", !.box = @ + 1])
           ELSE IF ~is_processing
           THEN Step(i, [t EXCEPT !.at = "boxes", !.box = @ + 1, !.broke = TRUE])
           ELSE \E available \in BOOLEAN :
                  IF available
                  THEN Step(i, [t EXCEPT !.at = "optimize"])
                  ELSE Step(i, [t EXCEPT !.obj = @ + 1])

\* app.py:929-948: the pair is optimized and its result written
WorkerOptimizes(i) ==
    /\ threads[i].at = "optimize"
    /\ Step(i, [threads[i] EXCEPT !.at = "objects", !.obj = @ + 1])

\* app.py:953-958: the batch is reported completed or stopped
WorkerReports(i) ==
    /\ threads[i].at = "report"
    /\ Step(i, [threads[i] EXCEPT !.at = "finally",
                  !.ended = IF is_processing THEN "completed" ELSE "stopped"])

\* app.py:960-962: an exception anywhere in the try block
WorkerRaises(i) ==
    /\ threads[i].at \in { "try", "boxes", "objects", "optimize", "report" }
    /\ Step(i, [threads[i] EXCEPT !.at = "finally", !.ended = "error"])

\* app.py:965
WorkerClearsFlag(i) ==
    /\ threads[i].at = "finally"
    /\ is_processing' = FALSE
    /\ threads' = [threads EXCEPT ![i].at = "progress"]
    /\ UNCHANGED metadata
    /\ NoRequest

\* app.py:966, after which the thread returns
WorkerReturns(i) ==
    /\ threads[i].at = "progress"
    /\ Step(i, [threads[i] EXCEPT !.at = "terminated"])

\* _process_files_thread, app.py:896-966, step by step
_process_files_thread(i) ==
    \/ WorkerBegins(i)
    \/ WorkerNextBox(i)
    \/ WorkerNextObject(i)
    \/ WorkerOptimizes(i)
    \/ WorkerReports(i)
    \/ WorkerRaises(i)
    \/ WorkerClearsFlag(i)
    \/ WorkerReturns(i)

\* the window is open, with some valid boxes and objects listed
InitBatch ==
    /\ is_processing = FALSE
    /\ metadata \in [boxes : 0..MaxBoxes, objects : 0..MaxObjects]
    /\ threads = <<>>
    /\ box_dims = Dims(<<20, 16, 12>>, Rectangular)
    /\ obj_dims = Dims(<<4, 3, 2>>, Rectangular)
    /\ max_attempts_arg = NoMaxAttempts
    /\ Locals
    /\ run = 0
    /\ NoExtraction

NextBatch ==
    \/ process_all_files
    \/ stop_processing
    \/ \E i \in 1..Len(threads) : _process_files_thread(i)

SpecBatch == InitBatch /\ [][NextBatch]_vars

(***************************************************************************)
(* Properties.                                                             *)
(***************************************************************************)

Returned == pc = "done"
Successful == Returned /\ result.error = "None"
GridDone == pc # "entry"

Box3 == <<box_dims.length, box_dims.width, box_dims.height>>
Obj3 == <<obj_dims.length, obj_dims.width, obj_dims.height>>


\* the grid count of one item orientation p, from the sentence of the claim:
\* floor(fit_x * fit_y * fit_z * (item efficiency + container efficiency) / 2)
ClaimedAdjusted(p) ==
    ((box_dims.length \div p[1]) * (box_dims.width \div p[2])
        * (box_dims.height \div p[3])
        * (get_shape_packing_efficiency(obj_dims.shape_type)
            + get_shape_packing_efficiency(box_dims.shape_type))) \div 200

ClaimedGrid == SetMax({ ClaimedAdjusted(p) : p \in Permutations3(Obj3) })

\* C1: the max_objects of every returned result is at least the max_objects
\* calculate_grid_packing returns for the same inputs, whatever the solver does.
C1_FinalAtLeastGrid ==
    Returned =>
        result.max_objects >= calculate_grid_packing(box_dims, obj_dims).max_objects

\* C2: the returned count is max(grid estimate, search count), the search
\* count being the most items any trial placed.
C2_FinalIsMaxOfGridAndSearch ==
    Returned => result.max_objects = Max(grid_result.max_objects, search_max)

\* C3: when the grid estimate exceeds 500, no solver invocation of the request,
\* trial or fallback, is given more than 200 items.
C3_CapAlways ==
    GridDone /\ grid_result.max_objects > 500 =>
        \A i \in 1..Len(calls) : calls[i].n <= 200

\* C3 amended: when no max_attempts is supplied and the grid estimate exceeds
\* 500, no solver invocation of the request is given more than 200 items.
C3_CapWithoutMaxAttempts ==
    GridDone /\ grid_result.max_objects > 500 /\ ~max_attempts_arg.given =>
        \A i \in 1..Len(calls) : calls[i].n <= 200

C3_Witness ==
    /\ Returned
    /\ grid_result.max_objects > 500
    /\ ~max_attempts_arg.given
    /\ Len(calls) = 3
    /\ \A i \in 1..Len(calls) : calls[i].n = 200

NoOrientationFits ==
    \A p \in Permutations3(Obj3) : \E a \in 1..3 : p[a] > Box3[a]

\* C4: when the item exceeds the container on every axis permutation the
\* request returns max_objects = 0, used_volume = 0 and a non-empty error.
C4_TooLargeReportsError ==
    Returned /\ NoOrientationFits =>
        /\ result.max_objects = 0
        /\ result.used_volume = 0
        /\ result.error # "None"

\* C5: calculate_grid_packing returns the maximum, over the 6 permutations of
\* the item's axes, of floor(fit_x * fit_y * fit_z * combined_efficiency); with
\* combined_efficiency 1.0 that is the maximum of the products of the fits.
C5_GridIsMaxOverPermutations ==
    GridDone =>
        /\ grid_result.max_objects = ClaimedGrid
        /\ CombinedEfficiency2(box_dims, obj_dims) = 200 =>
             grid_result.max_objects =
                SetMax({ (box_dims.length \div p[1]) * (box_dims.width \div p[2])
                           * (box_dims.height \div p[3]) : p \in Permutations3(Obj3) })

\* the estimate is below the product of the fits, and the first orientation
\* of the enumeration is not the best one
C5_Witness ==
    /\ GridDone
    /\ grid_result.max_objects > 0
    /\ grid_result.max_objects < GridCount(box_dims, grid_result.best_orientation)
    /\ grid_result.max_objects > ClaimedAdjusted(Obj3)

\* 1000 x 800 x 600 mm container, 200 x 150 x 100 mm item, both rectangular
C6_Request ==
    /\ Box3 = <<20, 16, 12>>
    /\ Obj3 = <<4, 3, 2>>
    /\ box_dims.shape_type = "rectangular"
    /\ obj_dims.shape_type = "rectangular"

BestFits ==
    << Fit(box_dims.length, grid_result.best_orientation[1]),
       Fit(box_dims.width, grid_result.best_orientation[2]),
       Fit(box_dims.height, grid_result.best_orientation[3]) >>

\* C6: for the 1000 x 800 x 600 container and the 200 x 150 x 100 item the grid
\* estimate is 150, from the per-axis fits 5 x 5 x 6.
C6_GridIs150 ==
    GridDone /\ C6_Request =>
        /\ grid_result.max_objects = 150
        /\ BestFits = <<5, 5, 6>>

\* C6 amended: for that request the grid estimate is 160, from the per-axis
\* fits 5 x 8 x 4 of the orientation 200 x 100 x 150; the orientation
\* 200 x 150 x 100 (fits 5 x 5 x 6) yields 150 and is not the best.
C6_GridIs160 ==
    GridDone /\ C6_Request =>
        /\ grid_result.max_objects = 160
        /\ grid_result.best_orientation = <<4, 2, 3>>
        /\ BestFits = <<5, 8, 4>>
        /\ AdjustedCount(box_dims, obj_dims, <<4, 3, 2>>) = 150

C6_Witness ==
    /\ Returned
    /\ C6_Request
    /\ result.max_objects = 160

\* C7: in every successful result used_volume is max_objects times the item's
\* bounding volume scaled by its volume_factor (in thousandths here).
C7_UsedVolumeScaledByFactor ==
    Successful =>
        1000 * result.used_volume
            = result.max_objects * (Volume(obj_dims) * obj_dims.volume_factor)

\* C8: the reported efficiency lies in [0, 100] (hundredths of a percent
\* here), the solver placing only items that fit disjointly in its container.
C8_EfficiencyInRange ==
    Returned =>
        /\ result.efficiency >= 0
        /\ result.efficiency <= 10000
        /\ result.used_volume <= Volume(box_dims)

\* the solver filled the container completely where the grid could not
C8_Witness ==
    /\ Successful
    /\ result.efficiency = 10000
    /\ result.max_objects > grid_result.max_objects

\* the volume factors an item of these dimensions may carry
Factors == { 1000, 866, 785, 524, 500 }

\* C9: calculate_theoretical_max returns floor(container volume * container
\* factor / (item volume * item factor)); it never decreases when the item's
\* factor decreases; 1000^3 against 100^3 gives 1000 at factor 1.0 and 2000 at
\* factor 0.5.
C9_TheoreticalIsFloor ==
    GridDone /\ ~max_attempts_arg.given =>
        /\ theoretical = (Volume(box_dims) * box_dims.volume_factor)
                            \div (Volume(obj_dims) * obj_dims.volume_factor)
        /\ \A f \in Factors :
             f <= obj_dims.volume_factor =>
                calculate_theoretical_max(box_dims, [obj_dims EXCEPT !.volume_factor = f])
                    >= theoretical
        /\ (Box3 = <<20, 20, 20>> /\ Obj3 = <<2, 2, 2>>
              /\ box_dims.volume_factor = 1000) =>
                /\ obj_dims.volume_factor = 1000 => theoretical = 1000
                /\ obj_dims.volume_factor = 500 => theoretical = 2000

ExtractedDims == extracted.value[1]
Extracted == extracted.returned /\ extracted.value # None

\* C11: every dimensions record a dimension extractor returns has length > 0,
\* width > 0 and height > 0; a path that cannot establish this returns None.
C11_ExtractedAxesPositive ==
    Extracted =>
        /\ ExtractedDims.length > 0
        /\ ExtractedDims.width > 0
        /\ ExtractedDims.height > 0

\* C12: get_stp_dimensions returns None if and only if the geometry source
\* cannot be located or opened; for an existing source it returns a record.
C12_NoneIffNotLocatedOrOpened ==
    extracted.returned /\ file.kind = "stp" =>
        ((extracted.value = None) <=> (~file.exists \/ ~file.openable))

\* C13: when no max_attempts is supplied the item count N given to the solver
\* is in 50..500: the grid estimate when that is in 50..500, 50 when it is
\* below 50, min(200, grid estimate) when it exceeds 500.
C13_ItemBudget ==
    GridDone /\ ~max_attempts_arg.given =>
        LET grid == grid_result.max_objects
            N == max_attempts
        IN  /\ N >= 50
            /\ N <= 500
            /\ (grid >= 50 /\ grid <= 500) => N = grid
            /\ grid < 50 => N = 50
            /\ grid > 500 => N = Min(200, grid)
            /\ \A i \in 1..Len(calls) : calls[i].n = N

\* a small grid estimate raised to 50 items, in trials and fallback alike
C13_Witness ==
    /\ Returned
    /\ ~max_attempts_arg.given
    /\ grid_result.max_objects > 0
    /\ grid_result.max_objects < 50
    /\ Len(calls) = 4
    /\ \A i \in 1..Len(calls) : calls[i].n = 50

\* every combination the search tried placed nothing: the search ends without
\* a best trial and the fallback pack() is the last solver invocation
SearchPlacedNothing ==
    /\ Len(calls) > 0
    /\ calls[Len(calls)].kind = "fallback"

\* C14: if every orientation combination of the search places zero items, the
\* search count is zero, so that the returned count is the grid estimate
\* whatever the solver does afterwards, and the request returns a result
\* without an error.
C14_ZeroSearchReturnsGrid ==
    Returned /\ SearchPlacedNothing =>
        /\ search_max = 0
        /\ result.error = "None"
        /\ result.max_objects = grid_result.max_objects

TrialCalls == { i \in 1..Len(calls) : calls[i].kind = "trial" }

Range(seq) == { seq[i] : i \in 1..Len(seq) }

HighStability ==
    [bigger_first |-> TRUE, fix_point |-> TRUE, check_stable |-> TRUE,
     support_surface_ratio |-> 85]

\* C16: every solver invocation of a request is given the high-stability
\* preset (bigger_first, fix_point, check_stable, support_surface_ratio 0.85)
\* and no other strategy parameters.
C16_OnlyHighStability ==
    \A i \in 1..Len(calls) : calls[i].strategy = HighStability

SearchOver == pc \in {"fallback", "aggregate", "done"}

\* C17: once some combination has placed at least 80% of N items no further
\* container orientation is tried; if no combination reaches 80% of N, all 3
\* container orientations are tried.
C17_EarlyExitAt80Percent ==
    /\ (pc = "search" /\ Len(calls) > 0 /\ GoodEnough(search_max, max_attempts))
          => obj_i > 1
    /\ (SearchOver /\ ~GoodEnough(search_max, max_attempts))
          => Cardinality(TrialCalls) = 3 * Len(obj_orientations)

\* the first trial, in the order of the calls, that placed the most items
FirstBestTrial ==
    CHOOSE i \in TrialCalls :
        /\ placed[i] = search_max
        /\ \A j \in TrialCalls : j < i => placed[j] < search_max

\* C18: when the search count is at least the grid estimate, the placements of
\* the result are exactly the items the solver left in the bin of the first
\* trial that placed the most items (the same items, read from that bin).
C18_SearchWinsPlacements ==
    (run = 1 /\ Successful /\ search_max >= grid_result.max_objects) =>
        /\ result.items = placed[FirstBestTrial]
        /\ result.items > 0 => result.items_from = FirstBestTrial

\* the cells of the grid of the best orientation
GridCells ==
    { <<i, j, k>> : i \in 0..(BestFits[1] - 1), j \in 0..(BestFits[2] - 1),
                    k \in 0..(BestFits[3] - 1) }

CellPosition(c) ==
    << c[1] * grid_result.best_orientation[1],
       c[2] * grid_result.best_orientation[2],
       c[3] * grid_result.best_orientation[3] >>

\* two placements share no interior point
Disjoint(p, q) ==
    \E a \in 1..3 :
        \/ p.position[a] + p.dimensions[a] <= q.position[a]
        \/ q.position[a] + q.dimensions[a] <= p.position[a]

\* a placement lies inside the container of the request
Inside(p) ==
    \A a \in 1..3 :
        /\ p.position[a] >= 0
        /\ p.position[a] + p.dimensions[a] <= Box3[a]

\* the placements are those of the grid: one per cell of the best orientation,
\* at the cell's position, unrotated, inside the container and (compared pair
\* by pair in layouts of up to MaxPairwise cells) disjoint
SynthesizedLayout ==
    /\ result.items_from = GridBin
    /\ result.items = Len(result.layout)
    /\ Len(result.layout) = Cardinality(GridCells)
    /\ { result.layout[n].position : n \in 1..Len(result.layout) }
          = { CellPosition(c) : c \in GridCells }
    /\ \A n \in 1..Len(result.layout) :
          /\ result.layout[n].rotation_type = 0
          /\ result.layout[n].dimensions = grid_result.best_orientation
          /\ Inside(result.layout[n])
    /\ Len(result.layout) <= MaxPairwise =>
          \A n \in 1..Len(result.layout) :
             \A m \in 1..(n - 1) : Disjoint(result.layout[m], result.layout[n])

\* C19: when the grid estimate exceeds the search count, the placements are
\* synthesized and not taken from the solver: one per grid cell (i, j, k) of
\* the best grid orientation, at (i*item_x, j*item_y, k*item_z) with rotation
\* index 0, pairwise non-overlapping and inside the container.
C19_GridWinsSynthesized ==
    (Successful /\ grid_result.max_objects > search_max) => SynthesizedLayout

\* the adjusted count of each orientation, in the order of the enumeration
OrientationCounts ==
    [i \in 1..Len(GridOrientations(obj_dims)) |->
        AdjustedCount(box_dims, obj_dims, GridOrientations(obj_dims)[i])]

LargestCount == SetMax({ OrientationCounts[i] : i \in DOMAIN OrientationCounts })

\* the first index of the enumeration whose adjusted count is the largest
FirstLargest ==
    CHOOSE i \in DOMAIN OrientationCounts :
        /\ OrientationCounts[i] = LargestCount
        /\ \A j \in 1..(i - 1) : OrientationCounts[j] < LargestCount

\* C20: calculate_grid_packing keeps the orientation with the largest adjusted
\* count, the first one in the enumeration order (l,w,h), (l,h,w), (w,l,h),
\* (w,h,l), (h,l,w), (h,w,l) among equals, and best_orientation is None
\* exactly when every orientation has adjusted count 0.
C20_FirstLargestKept ==
    GridDone =>
        /\ grid_result.max_objects = LargestCount
        /\ (grid_result.best_orientation = None) <=> (LargestCount = 0)
        /\ LargestCount > 0 =>
              grid_result.best_orientation = GridOrientations(obj_dims)[FirstLargest]

\* two different orientations tie at the largest count, and the one kept is
\* neither the first nor the last of the enumeration
C20_Witness ==
    /\ GridDone
    /\ LargestCount > 0
    /\ FirstLargest > 1
    /\ \E j \in (FirstLargest + 1)..Len(GridOrientations(obj_dims)) :
          /\ OrientationCounts[j] = LargestCount
          /\ GridOrientations(obj_dims)[j] # GridOrientations(obj_dims)[FirstLargest]
    /\ grid_result.best_orientation = GridOrientations(obj_dims)[FirstLargest]

\* an existing STEP source has been handed to get_stp_dimensions and a dict
\* has come back
ExtractedStp == Extracted /\ file.kind = "stp"

ExtractedAxes == <<ExtractedDims.length, ExtractedDims.width, ExtractedDims.height>>
ExtractedProfile == <<ExtractedDims.shape_type, ExtractedDims.volume_factor>>

\* the content of the source can be read
Readable(f) == f.ext_stp /\ f.openable

\* path (1): dimensions written in the name, or in a well-formed comment
EmbeddedInName(f) == f.name_match # None
EmbeddedInComment(f) ==
    /\ ~EmbeddedInName(f)
    /\ Readable(f)
    /\ f.comment_match # None
    /\ \A i \in 1..3 : ~FloatRaises(f.comment_match[i])
Embedded(f) == EmbeddedInName(f) \/ EmbeddedInComment(f)

\* path (2): boundary sample points in the content
Sampled(f) == Readable(f) /\ Len(f.points) > 0

\* path (3): a fragment of the size patterns in the name
Patterned(f) == FirstIn(complex_patterns, f.fragments) # 0

AxesOf(d) == <<d.length, d.width, d.height>>

\* C21: get_stp_dimensions resolves the dimensions by strict priority:
\* embedded dimensions, else the bounding box of the sample points, else the
\* size pattern of a name fragment, else the file-size pseudo-dimension; a
\* lower path determines the result only when every higher one has failed.
C21_PriorityOrder ==
    ExtractedStp =>
        /\ EmbeddedInName(file) =>
              ExtractedAxes = << Float(file.name_match[1]), Float(file.name_match[2]),
                                 Float(file.name_match[3]) >>
        /\ EmbeddedInComment(file) =>
              ExtractedAxes = << Float(file.comment_match[1]),
                                 Float(file.comment_match[2]),
                                 Float(file.comment_match[3]) >>
        /\ (~Embedded(file) /\ Sampled(file)) =>
              ExtractedAxes = << BoundingAxis(file.points, 1),
                                 BoundingAxis(file.points, 2),
                                 BoundingAxis(file.points, 3) >>
        /\ (~Embedded(file) /\ ~Sampled(file) /\ Patterned(file)) =>
              ExtractedAxes
                 = AxesOf(complex_patterns[FirstIn(complex_patterns, file.fragments)][2])

\* no path above the file-size pseudo-dimension has anything to offer
NothingToRead(f) == ~Embedded(f) /\ ~Sampled(f) /\ ~Patterned(f)

\* C22: an existing source with neither embedded dimensions nor sample points
\* nor a matching name fragment yields length = 2 * base, width = 1.5 * base,
\* height = base with base = 50 + (file_size mod 500), tagged unknown.
C22_SizeFallback ==
    (ExtractedStp /\ NothingToRead(file)) =>
        LET base == 50 + (file.file_size % 500)
        IN  /\ ExtractedAxes = <<base * 200, base * 150, base * 100>>
            /\ ExtractedDims.shape_type = "unknown"

\* C23: when the dimensions come from embedded values (the name or the
\* dimensions comment), shape_type and volume_factor are still those of the
\* classification of the source's shape markers, not fixed to rectangular / 1.0.
C23_EmbeddedStillClassified ==
    (ExtractedStp /\ Embedded(file) /\ Readable(file)) =>
        ExtractedProfile = _detect_shape_type_from_content(file)

\* the profile the claim gives a cross-section whose convex hull has n vertices
HullProfile(n) ==
    IF n <= 4 THEN <<"rectangular", 1000>>
    ELSE IF n = 5 THEN <<"pentagonal", 688>>
    ELSE IF n = 6 THEN <<"hexagonal", 866>>
    ELSE IF n = 8 THEN <<"octagonal", 828>>
    ELSE IF n >= 12 THEN <<"circular", 785>>
    ELSE <<"polygonal", 750>>

\* neither the name nor the content of the source names a shape
Unmarked(f) == f.markers = {} /\ f.plane_count = 0 /\ f.fragments = {}

\* a readable source without embedded dimensions or markers whose points
\* form at least one cross-section
SectionedUnmarked(f) ==
    /\ ~Embedded(f)
    /\ Sampled(f)
    /\ Unmarked(f)
    /\ CrossSectionLevels(f.points) # <<>>

\* C24: for a source with sample points and no explicit primitive markers the
\* shape profile returned is that of the convex hull of the most populated
\* horizontal cross-section: at most 4 vertices rectangular (1.0), 5 pentagonal
\* (0.688), 6 hexagonal (0.866), 8 octagonal (0.828), 12 or more circular
\* (0.785), any other count polygonal (0.75).
C24_HullProfileReturned ==
    (ExtractedStp /\ SectionedUnmarked(file)) =>
        ExtractedProfile
           = HullProfile(Len(_compute_convex_hull(LargestSection(file.points))))

\* C25: for a source with no sample points and no explicit primitive markers
\* the shape profile returned is shape_type = unknown with volume_factor = 0.8,
\* never rectangular / 1.0.
C25_UnknownWithoutPoints ==
    (ExtractedStp /\ ~Embedded(file) /\ ~Sampled(file) /\ Unmarked(file)) =>
        ExtractedProfile = <<"unknown", 800>>

\* C26: in every successful result the number of placements emitted
\* (bins[0].items) equals max_objects, whether the placements come from the
\* solver or are synthesized from the grid, for every combination of item and
\* container shape types.
C26_PlacementsEqualCount ==
    Successful =>
        /\ result.items = result.max_objects
        /\ result.items_from = GridBin => Len(result.layout) = result.max_objects

\* C27: every placement of a successful result lies inside the container the
\* result reports, [length, width, height] in the order of the input: position
\* + dimensions does not exceed it on any axis, also when the best trial was
\* run on a permuted container orientation.
C27_PlacementsInsideReported ==
    Successful => \A a \in 1..3 : result.reach[a] <= Box3[a]

\* a request without max_attempts whose grid estimate is at least 50
GridAtLeast50 ==
    GridDone /\ ~max_attempts_arg.given /\ grid_result.max_objects >= 50

\* C28: when no max_attempts is supplied and the grid estimate is at least 50,
\* no solver invocation is given more items than the grid estimate, and the
\* max_objects returned equals the grid estimate whatever the solver did.
C28_GridDecidesFrom50 ==
    GridAtLeast50 =>
        /\ \A i \in 1..Len(calls) : calls[i].n <= grid_result.max_objects
        /\ Returned => result.max_objects = grid_result.max_objects

\* C29: whatever the interleaving of process_all_files, stop_processing and
\* the steps of the workers, at most one worker runs at any time, and a worker
\* leaves its loops early or reports the batch stopped only after
\* stop_processing was called while it ran.
C29_OneWorkerAtATime ==
    /\ Cardinality(Running) <= 1
    /\ \A i \in 1..Len(threads) :
         (threads[i].broke \/ threads[i].ended = "stopped") => threads[i].stop_called

\* the file name holds one of the shape fragments
NameMatches(f) ==
    \E i \in 1..Len(filename_patterns) : filename_patterns[i][1] \in f.fragments

\* the entity-marker groups that come before PLANE
CurvedGroups ==
    { {"SPHERICAL_SURFACE"}, {"CYLINDRICAL_SURFACE", "CIRCLE"},
      {"CYLINDRICAL_SURFACE"}, {"CONICAL_SURFACE"},
      {"B_SPLINE_SURFACE", "TRIMMED_CURVE"}, {"B_SPLINE_CURVE", "NURBS"},
      {"ELLIPSE"}, {"CIRCLE"} }

\* every marker of one of those groups is in the content
CurvedMatches(f) ==
    \E group \in CurvedGroups : \A entity \in group : Found(entity, f.markers)

\* PLANE is in the content
PlaneMatches(f) == f.plane_count >= 1

\* the profile by the number of PLANE occurrences
ByPlaneCount(n) ==
    IF n >= 8 THEN <<"octagonal", 828>>
    ELSE IF n >= 6 THEN <<"hexagonal", 866>>
    ELSE IF n = 5 THEN <<"pentagonal", 688>>
    ELSE IF n >= 3 THEN <<"triangular", 500>>
    ELSE <<"polygonal", 800>>

\* the call of get_stp_dimensions came to classify the content: the source
\* was read and neither embeds dimensions nor is named after a known part
Classified ==
    /\ ExtractedStp
    /\ Readable(file)
    /\ ~Embedded(file)
    /\ FirstIn(complex_patterns, file.fragments) = 0

\* C30: _detect_shape_type_from_content returns (rectangular, 1.0) exactly
\* when the file name holds no shape fragment and no entity-marker group,
\* PLANE included, matches the content; content with PLANE and no marker group
\* of higher priority is classified by the number of PLANE occurrences (8 or
\* more octagonal, 6-7 hexagonal, 5 pentagonal, 3-4 triangular, 1-2 polygonal
\* with factor 0.8), so the plane count after the loop decides nothing.
C30_RectangularIffNothingMatches ==
    ExtractedStp =>
        LET profile == _detect_shape_type_from_content(file)
            nothing == ~NameMatches(file) /\ ~CurvedMatches(file) /\ ~PlaneMatches(file)
        IN  /\ profile = <<"rectangular", 1000>> <=> nothing
            /\ (~NameMatches(file) /\ ~CurvedMatches(file) /\ PlaneMatches(file)) =>
                   profile = ByPlaneCount(file.plane_count)

\* a source with two PLANE occurrences and nothing else came back polygonal
C30_Witness ==
    /\ Classified
    /\ ~NameMatches(file)
    /\ ~CurvedMatches(file)
    /\ file.plane_count = 2
    /\ ExtractedProfile = <<"polygonal", 800>>

====
